---- MODULE Spec2Model ----
(***************************************************************************)
(* Model of the windowed request limiter (middleware/rateLimiter.js), of   *)
(* its two counting backends (the Redis client and the module-level        *)
(* in-memory Map) and of the error pipeline that answers a rejection.      *)
(*                                                                         *)
(* Time is in milliseconds.  The shared store is Redis with its documented *)
(* semantics: GET answers the value or nil, INCR creates a missing key at  *)
(* 1 and keeps the TTL of an existing one, EXPIRE wants an integer number  *)
(* of seconds (an error reply otherwise; a number <= 0 deletes the key),   *)
(* MULTI/EXEC runs its queue without interleaving, and a key is expired    *)
(* once the clock is past its expiry time.  The client's calls answer      *)
(* through promises, as the middleware's awaits expect.                    *)
(***************************************************************************)
EXTENDS Integers, Sequences, FiniteSets, TLC

VARIABLES
  max,            \* options.max of the limiter instance
  windowMs,       \* options.windowMs of the limiter instance
  connected,      \* redisClient && redisClient.connected
  store,          \* the shared store: key -> NoKey or [count, exp]
  inMemoryCache,  \* the module-level Map: key -> NoEntry or [count, startTime]
  now,            \* the clock (Date.now() and the store's clock), ms
  req,            \* per pending invocation: where it is suspended and its key
  last,           \* history: what the most recently completed invocation did
  adm,            \* history: requests admitted per key in the backend's current window
  wstart,         \* history: when the key's current store counter was created
  obs,            \* history: what the request being handled found on arrival
  log,            \* history: the timestamped decisions of a request scenario
  pair,           \* history: the two decisions of a request given to both backends
  http,           \* the HTTP request going through the application's pipeline
  app,            \* history: the route and the number of the caller's HTTP requests
  calls,          \* history: the continuations the last invocation called
  lastAdm,        \* history: when a request for the key was last admitted
  pre,            \* the request a preconfigured limiter is handling
  part,           \* history: requests counted per preconfigured limiter and principal
  users,          \* the users table: the rows User.create has stored, in order
  reg,            \* per invocation of register: where it is suspended, what it did
  lg,             \* the invocation of login
  res,            \* per invocation: the HTTP response the controller sent
  comments,       \* the comments table: the rows Comment.create has stored
  likes,          \* the likes table: rows per user and comment
  del,            \* the invocation of deleteComment
  tog,            \* per invocation of toggleCommentLike: where it is, what it did
  up,             \* the upload request being processed
  temps,          \* uploads whose temporary file is on disk
  objects,        \* uploads whose object is in object storage
  videos          \* uploads that have a Video record

keysVars  == <<pre, part>>
authVars  == <<users, reg, lg, res>>
commentVars == <<comments, likes, del, tog>>
uploadVars == <<up, temps, objects, videos>>
svcVars   == <<keysVars, authVars, commentVars, uploadVars>>
notKeysVars == <<authVars, commentVars, uploadVars>>
limVars   == <<max, windowMs, connected, store, inMemoryCache, now, req, last,
               adm, wstart, obs, log, pair, http, app, calls, lastAdm>>
cfgVars   == <<max, windowMs>>
progVars  == <<connected, store, inMemoryCache, now, req>>
ghostVars == <<adm, wstart, obs>>
histVars  == <<log, pair, http, app, calls, lastAdm, svcVars>>
vars == <<max, windowMs, connected, store, inMemoryCache, now, req, last,
          adm, wstart, obs, log, pair, http, app, calls, lastAdm, svcVars>>

----------------------------------------------------------------------------
(* Bounds of the model *)

\* the largest options.max a limiter is built with
MaxLimit == 2
\* the clock runs from 0 to MaxTicks * TickMs
MaxTicks == 6
\* the number of requests of a logged scenario
MaxLog == 4

TickMs == 4 * 100
Horizon == MaxTicks * TickMs

Keys  == {"ratelimit:a", "ratelimit:b"}
Procs == {"r1", "r2"}
\* the key the concurrent requests are for, and the one sequential invocation
HotKeys == {"ratelimit:a"}
SeqProc == "r1"

\* window lengths a limiter is built with: a whole and a fractional number
\* of seconds, and whole numbers of seconds only
WindowChoices == {1000, 1500}
WholeWindows  == {1000, 2000}

NoKey   == [count |-> 0, exp |-> -2]
NoEntry == [count |-> -1, startTime |-> -1]
Nil     == -1
NoTTL   == -1
NoLast  == [key |-> "", path |-> "none", out |-> "none", err |-> FALSE,
            incS |-> 0, incM |-> 0]
Idle    == [pc |-> "idle", key |-> ""]
NoObs   == [admPre |-> -1, late |-> FALSE, exhausted |-> FALSE, elapsed |-> FALSE]
NoPair  == [s |-> "none", m |-> "none"]
NoError == [class |-> "none", name |-> "", statusCode |-> 0, message |-> "",
            type |-> "", code |-> ""]
NoApp   == [route |-> "none", n |-> 0]
NoCalls == [exhausted |-> FALSE, handler |-> 0, proceed |-> 0, escaped |-> FALSE]
NoHttp  == [stage |-> "none", err |-> NoError, routeRan |-> FALSE, status |-> 0,
            type |-> "", message |-> "", stack |-> FALSE]

----------------------------------------------------------------------------
(* The shared store (Redis) *)

\* a key with a TTL is gone once the clock is past its expiry time
Expired(e, t) == e # NoKey /\ e.exp # NoTTL /\ t > e.exp

\* the store's own TTL mechanism, applied to every key
Purge(s, t) == [k \in DOMAIN s |-> IF Expired(s[k], t) THEN NoKey ELSE s[k]]

\* GET key: the count, or Nil for a missing key
StoreGet(s, k, t) == IF s[k] = NoKey \/ Expired(s[k], t) THEN Nil ELSE s[k].count

\* mutant: the quota check lets one request too many through
StoreExceededOffByOne(cur) == cur # Nil /\ cur > max

\* currentCount && parseInt(currentCount) >= max
StoreExceeded(cur) == cur # Nil /\ cur >= max

\* INCR key
StoreIncr(e) == IF e = NoKey THEN [count |-> 1, exp |-> NoTTL]
                ELSE [e EXCEPT !.count = @ + 1]

\* EXPIRE key (windowMs / 1000): only a whole number of seconds is accepted
ExpireArgIsInteger == windowMs % 1000 = 0
ExpireSeconds == windowMs \div 1000

StoreExpire(e, t) ==
  IF ~ExpireArgIsInteger THEN e
  ELSE IF ExpireSeconds <= 0 THEN NoKey
  ELSE [e EXCEPT !.exp = t + ExpireSeconds * 1000]

\* mutant: one counter shared by all keys
StoreIncrExpireAllKeys(s, k, t) ==
  [j \in DOMAIN s |->
     StoreExpire(StoreIncr(IF Expired(s[j], t) THEN NoKey ELSE s[j]), t)]

\* multi().incr(key).expire(key, windowMs / 1000).exec(), applied as one unit
StoreIncrExpire(s, k, t) ==
  LET cur == IF Expired(s[k], t) THEN NoKey ELSE s[k]
  IN  [s EXCEPT ![k] = StoreExpire(StoreIncr(cur), t)]

----------------------------------------------------------------------------
(* The in-memory fallback *)

\* inMemoryCache.get(key) || { count: 0, startTime: now }
MemItem(c, k, t) == IF c[k] = NoEntry THEN [count |-> 0, startTime |-> t] ELSE c[k]

\* now - cacheItem.startTime > windowMs
MemElapsed(item, t) == t - item.startTime > windowMs

\* mutant: the rollover restarts the window but keeps the count
MemResetKeepsCount(item, t) ==
  IF t - item.startTime > windowMs THEN [item EXCEPT !.startTime = t] ELSE item

\* reset counter if window has elapsed
MemReset(item, t) ==
  IF MemElapsed(item, t) THEN [count |-> 0, startTime |-> t] ELSE item

\* mutant: the comparison is strict
MemExceededOffByOne(item) == item.count > max

\* cacheItem.count >= max
MemExceeded(item) == item.count >= max

\* mutant: a rejected request drops the key's entry
MemAfterRejectEvicts(c, k, t) == [c EXCEPT ![k] = NoEntry]

\* mutant: a rejected request is counted too
MemAfterRejectCounts(c, k, t) ==
  [c EXCEPT ![k] = [MemReset(MemItem(c, k, t), t) EXCEPT !.count = @ + 1]]

\* the Map after a rejected request: a stored item was reset in place, a
\* fresh item was never stored
MemAfterReject(c, k, t) ==
  IF c[k] = NoEntry THEN c ELSE [c EXCEPT ![k] = MemReset(c[k], t)]

\* cacheItem.count += 1; inMemoryCache.set(key, cacheItem)
MemAfterAdmit(c, k, t) ==
  [c EXCEPT ![k] = [MemReset(MemItem(c, k, t), t) EXCEPT !.count = @ + 1]]

MemAdmits(c, k, t) == ~MemExceeded(MemReset(MemItem(c, k, t), t))

----------------------------------------------------------------------------
(* The middleware: one invocation of the async function *)

\* if (redisClient && redisClient.connected)
UseStore == connected

\* in-memory branch: runs to completion without suspending
MemRequest(p, k) ==
  /\ req[p].pc = "idle"
  /\ ~UseStore
  /\ LET admit == MemAdmits(inMemoryCache, k, now)
     IN  /\ inMemoryCache' = IF admit THEN MemAfterAdmit(inMemoryCache, k, now)
                             ELSE MemAfterReject(inMemoryCache, k, now)
         /\ last' = [key |-> k, path |-> "mem",
                     out |-> IF admit THEN "proceed" ELSE "exceeded",
                     err |-> FALSE, incS |-> 0,
                     incM |-> IF admit THEN 1 ELSE 0]
  /\ UNCHANGED <<max, windowMs, connected, store, now, req>>

\* shared-store branch: GET is sent and the invocation suspends
StoreRequest(p, k) ==
  /\ req[p].pc = "idle"
  /\ UseStore
  /\ req' = [req EXCEPT ![p] = [pc |-> "get", key |-> k]]
  /\ UNCHANGED <<max, windowMs, connected, store, inMemoryCache, now, last>>

\* mutant: the count GET returns is not compared with max
GetReturnNoCheck(p) ==
  /\ req[p].pc = "get"
  /\ req' = [req EXCEPT ![p].pc = "exec"]
  /\ UNCHANGED <<max, windowMs, connected, store, inMemoryCache, now, last>>

\* GET answers: either the handler is called, or MULTI is sent
GetReturn(p) ==
  /\ req[p].pc = "get"
  /\ LET k   == req[p].key
         cur == StoreGet(store, k, now)
     IN  IF StoreExceeded(cur)
         THEN /\ req' = [req EXCEPT ![p] = Idle]
              /\ last' = [key |-> k, path |-> "store", out |-> "exceeded",
                          err |-> FALSE, incS |-> 0, incM |-> 0]
         ELSE /\ req' = [req EXCEPT ![p].pc = "exec"]
              /\ last' = last
  /\ UNCHANGED <<max, windowMs, connected, store, inMemoryCache, now>>

\* EXEC answers: the counter was incremented and its expiry set; next()
ExecReturn(p) ==
  /\ req[p].pc = "exec"
  /\ LET k == req[p].key
     IN  /\ store' = StoreIncrExpire(store, k, now)
         /\ last' = [key |-> k, path |-> "store", out |-> "proceed",
                     err |-> FALSE, incS |-> 1, incM |-> 0]
  /\ req' = [req EXCEPT ![p] = Idle]
  /\ UNCHANGED <<max, windowMs, connected, inMemoryCache, now>>

\* mutant: no catch around the store calls, the error leaves the middleware
GetRaiseUncaught(p) ==
  /\ req[p].pc = "get"
  /\ last' = [key |-> req[p].key, path |-> "store", out |-> "throws",
              err |-> TRUE, incS |-> 0, incM |-> 0]
  /\ req' = [req EXCEPT ![p] = Idle]
  /\ UNCHANGED <<max, windowMs, connected, store, inMemoryCache, now>>

\* mutant: the catch block logs the error and calls nothing
GetRaiseLost(p) ==
  /\ req[p].pc = "get"
  /\ req' = [req EXCEPT ![p].pc = "lost"]
  /\ UNCHANGED <<max, windowMs, connected, store, inMemoryCache, now, last>>

\* GET raises (connection lost, timeout): catch, next()
GetRaise(p) ==
  /\ req[p].pc = "get"
  /\ last' = [key |-> req[p].key, path |-> "store", out |-> "proceed",
              err |-> TRUE, incS |-> 0, incM |-> 0]
  /\ req' = [req EXCEPT ![p] = Idle]
  /\ UNCHANGED <<max, windowMs, connected, store, inMemoryCache, now>>

\* mutant: a store error falls back to counting the request in memory too
ExecRaiseFallsBack(p, applied) ==
  /\ req[p].pc = "exec"
  /\ LET k == req[p].key
     IN  /\ store' = IF applied THEN StoreIncrExpire(store, k, now) ELSE store
         /\ inMemoryCache' = MemAfterAdmit(inMemoryCache, k, now)
         /\ last' = [key |-> k, path |-> "store", out |-> "proceed",
                     err |-> TRUE, incS |-> IF applied THEN 1 ELSE 0, incM |-> 1]
  /\ req' = [req EXCEPT ![p] = Idle]
  /\ UNCHANGED <<max, windowMs, connected, now>>

\* EXEC raises, before or after the server ran the queue: catch, next()
ExecRaise(p, applied) ==
  /\ req[p].pc = "exec"
  /\ LET k == req[p].key
     IN  /\ store' = IF applied THEN StoreIncrExpire(store, k, now) ELSE store
         /\ last' = [key |-> k, path |-> "store", out |-> "proceed",
                     err |-> TRUE, incS |-> IF applied THEN 1 ELSE 0, incM |-> 0]
  /\ req' = [req EXCEPT ![p] = Idle]
  /\ UNCHANGED <<max, windowMs, connected, inMemoryCache, now>>

----------------------------------------------------------------------------
(* The environment *)

\* time passes; the store drops the keys whose TTL has run out
Advance(d) ==
  /\ now + d <= Horizon
  /\ now' = now + d
  /\ store' = Purge(store, now + d)
  /\ UNCHANGED <<max, windowMs, connected, inMemoryCache, req, last>>

\* the client's connection to the store comes up
Connect ==
  /\ ~connected
  /\ connected' = TRUE
  /\ UNCHANGED <<max, windowMs, store, inMemoryCache, now, req, last>>

\* the client's connection to the store goes down
Disconnect ==
  /\ connected
  /\ connected' = FALSE
  /\ UNCHANGED <<max, windowMs, store, inMemoryCache, now, req, last>>

----------------------------------------------------------------------------
(* The limiter under concurrent requests, store errors and backend switches *)

InitProg ==
  /\ store = [k \in Keys |-> NoKey]
  /\ inMemoryCache = [k \in Keys |-> NoEntry]
  /\ now = 0
  /\ req = [p \in Procs |-> Idle]
  /\ last = NoLast

\* the services' variables before any request
NoPre  == [pc |-> "idle", lim |-> "", key |-> "", who |-> ""]

NoReg   == [pc |-> "idle", valid |-> TRUE, username |-> "", email |-> "",
            password |-> "", nameOther |-> FALSE, emailOther |-> FALSE,
            emailAny |-> FALSE, creates |-> 0, failed |-> FALSE]
NoLogin == [pc |-> "idle", valid |-> TRUE, email |-> "", password |-> "",
            row |-> 0, known |-> FALSE, wrong |-> FALSE, compares |-> 0,
            signs |-> 0, failed |-> FALSE]
NoRes   == [status |-> 0, error |-> "", token |-> FALSE]
\* the invocation of login answers under this name
LoginProc == "login"

\* the comments service: who exists, which videos they own, how many comment
\* rows the table is let to hold
MaxComments == 2
People == {1, 2, 3}
Videos == {"v1", "v2"}
VideoOwner(v) == IF v = "v1" THEN 1 ELSE 2
CommentIds == 1..MaxComments
NoLikes == [k \in People \X CommentIds |-> 0]

NoDel == [pc |-> "idle", commentId |-> 0, userId |-> 0, existed |-> FALSE,
          allowed |-> FALSE, destroys |-> 0, failed |-> FALSE,
          status |-> 0, error |-> ""]
NoTog == [pc |-> "idle", commentId |-> 0, userId |-> 0, before |-> 0,
          totalBefore |-> 0, chained |-> FALSE, prevBefore |-> 0,
          prevTotal |-> 0, existing |-> FALSE, liked |-> FALSE,
          totalLikes |-> 0, failed |-> FALSE, status |-> 0, fresh |-> FALSE]

NoUp == [pc |-> "idle", id |-> 0, uploadedFile |-> FALSE, unlinks |-> 0,
         unlinked |-> FALSE, deletes |-> 0, deleted |-> FALSE,
         threw |-> FALSE, status |-> 0]

InitSvc ==
  /\ pre = NoPre
  /\ part = [n |-> 0, by |-> <<>>]
  /\ users = <<>>
  /\ reg = [p \in Procs |-> NoReg]
  /\ lg = NoLogin
  /\ res = [p \in Procs \cup {LoginProc} |-> NoRes]
  /\ comments = <<>>
  /\ likes = NoLikes
  /\ del = NoDel
  /\ tog = [p \in Procs |-> NoTog]
  /\ up = NoUp
  /\ temps = {}
  /\ objects = {}
  /\ videos = {}

InitGhost ==
  /\ adm = [k \in Keys |-> 0]
  /\ wstart = [k \in Keys |-> Nil]
  /\ obs = NoObs
  /\ log = <<>>
  /\ pair = NoPair
  /\ http = NoHttp
  /\ app = NoApp
  /\ calls = NoCalls
  /\ lastAdm = [k \in Keys |-> Nil]
  /\ InitSvc

\* rateLimiter(options): the instance keeps the options it is given
Init ==
  /\ max \in 1..MaxLimit
  /\ windowMs \in WindowChoices
  /\ connected \in BOOLEAN
  /\ InitProg
  /\ InitGhost

Next ==
  \/ \E p \in Procs, k \in HotKeys : MemRequest(p, k) /\ UNCHANGED <<ghostVars, histVars>>
  \/ \E p \in Procs, k \in HotKeys : StoreRequest(p, k) /\ UNCHANGED <<ghostVars, histVars>>
  \/ \E p \in Procs : GetReturn(p) /\ UNCHANGED <<ghostVars, histVars>>
  \/ \E p \in Procs : ExecReturn(p) /\ UNCHANGED <<ghostVars, histVars>>
  \/ \E p \in Procs : GetRaise(p) /\ UNCHANGED <<ghostVars, histVars>>
  \/ \E p \in Procs, a \in BOOLEAN : ExecRaise(p, a) /\ UNCHANGED <<ghostVars, histVars>>
  \/ Advance(TickMs) /\ UNCHANGED <<ghostVars, histVars>>
  \/ Connect /\ UNCHANGED <<ghostVars, histVars>>
  \/ Disconnect /\ UNCHANGED <<ghostVars, histVars>>

Spec == Init /\ [][Next]_vars

----------------------------------------------------------------------------
(* One backend, requests handled one at a time, no store error.  The      *)
(* history variables count the admissions of the key's current window:    *)
(* a window of the in-memory backend ends when a request finds the entry  *)
(* missing or older than windowMs, a window of the store ends when its    *)
(* counter has expired.                                                   *)

AllIdle == \A p \in Procs : req[p].pc = "idle"

TrackMemRequest(k) ==
  LET old    == inMemoryCache[k]
      fresh  == old = NoEntry \/ MemElapsed(old, now)
      before == IF fresh THEN 0 ELSE adm[k]
  IN  /\ obs' = [admPre |-> before, late |-> FALSE,
                 exhausted |-> (old # NoEntry /\ old.count = max),
                 elapsed |-> (old # NoEntry /\ MemElapsed(old, now))]
      /\ adm' = [adm EXCEPT ![k] =
                   before + IF MemAdmits(inMemoryCache, k, now) THEN 1 ELSE 0]
      /\ UNCHANGED wstart

TrackStoreRequest(k) ==
  /\ obs' = [admPre |-> -1,
             late |-> (wstart[k] # Nil /\ now - wstart[k] > windowMs),
             exhausted |-> (StoreGet(store, k, now) # Nil /\ adm[k] = max),
             elapsed |-> FALSE]
  /\ UNCHANGED <<adm, wstart>>

TrackGetReturn ==
  /\ obs' = [obs EXCEPT !.admPre =
               IF StoreGet(store, req[SeqProc].key, now) = Nil THEN 0
               ELSE adm[req[SeqProc].key]]
  /\ UNCHANGED <<adm, wstart>>

TrackExecReturn ==
  LET k     == req[SeqProc].key
      fresh == StoreGet(store, k, now) = Nil
  IN  /\ adm' = [adm EXCEPT ![k] = IF fresh THEN 1 ELSE @ + 1]
      /\ wstart' = [wstart EXCEPT ![k] = IF fresh THEN now ELSE @]
      /\ UNCHANGED obs

SeqMemRequest(k) ==
  /\ AllIdle
  /\ MemRequest(SeqProc, k)
  /\ TrackMemRequest(k)
  /\ UNCHANGED histVars

SeqStoreRequest(k) ==
  /\ AllIdle
  /\ StoreRequest(SeqProc, k)
  /\ TrackStoreRequest(k)
  /\ UNCHANGED histVars

SeqGetReturn ==
  /\ GetReturn(SeqProc)
  /\ TrackGetReturn
  /\ UNCHANGED histVars

SeqExecReturn ==
  /\ ExecReturn(SeqProc)
  /\ TrackExecReturn
  /\ UNCHANGED histVars

SeqAdvance == Advance(TickMs) /\ UNCHANGED <<ghostVars, histVars>>

NextSeq ==
  \/ \E k \in Keys : SeqMemRequest(k)
  \/ \E k \in Keys : SeqStoreRequest(k)
  \/ SeqGetReturn
  \/ SeqExecReturn
  \/ SeqAdvance

InitSeq ==
  /\ max \in 1..MaxLimit
  /\ windowMs \in WholeWindows
  /\ connected \in BOOLEAN
  /\ InitProg
  /\ InitGhost

SpecSeq == InitSeq /\ [][NextSeq]_vars

----------------------------------------------------------------------------
\* C1: on either backend, with requests handled one at a time, a request that
\* arrives when max requests for its key have already been admitted in the
\* key's current window is rejected (the handler runs, next() does not), so
\* no window ever admits more than max requests.
RejectsAfterMax ==
  /\ (AllIdle /\ obs.admPre = max) => (last.out = "exceeded" /\ last.incS + last.incM = 0)
  /\ \A k \in Keys : adm[k] <= max

RejectsAfterMaxWitness ==
  /\ AllIdle /\ obs.admPre = max /\ max = MaxLimit
  /\ last.path = "store" /\ last.out = "exceeded"
  /\ store[last.key] # NoKey /\ store[last.key].count = max

RejectsAfterMaxWitnessMem ==
  /\ AllIdle /\ obs.admPre = max /\ max = MaxLimit
  /\ last.path = "mem" /\ last.out = "exceeded"
  /\ inMemoryCache[last.key].count = max

\* C4 (as claimed): on the shared store, a request arriving more than windowMs
\* after the creation of its key's counter is admitted.
StoreAdmitsAfterWindow ==
  (AllIdle /\ last.path = "store" /\ obs.late) => last.out = "proceed"

\* C8: a step of an invocation for one key leaves the store counter (count and
\* expiry) and the in-memory entry (count and window start) of every other key
\* as they were, and the decision for a key is the one the limiter takes when
\* the other keys have no counter at all.
StepKey ==
  IF req[SeqProc].pc # "idle" THEN req[SeqProc].key
  ELSE IF req'[SeqProc].pc # "idle" THEN req'[SeqProc].key
  ELSE last'.key

Alone(f, k, none) == [j \in Keys |-> IF j = k THEN f[j] ELSE none]

KeysIndependent ==
  [][ /\ now' = now =>
           \A k \in Keys \ {StepKey} :
              store'[k] = store[k] /\ inMemoryCache'[k] = inMemoryCache[k]
      /\ \A k \in Keys :
           /\ MemAdmits(inMemoryCache, k, now)
                = MemAdmits(Alone(inMemoryCache, k, NoEntry), k, now)
           /\ MemAfterAdmit(inMemoryCache, k, now)[k]
                = MemAfterAdmit(Alone(inMemoryCache, k, NoEntry), k, now)[k]
           /\ StoreGet(store, k, now) = StoreGet(Alone(store, k, NoKey), k, now)
           /\ StoreIncrExpire(store, k, now)[k]
                = StoreIncrExpire(Alone(store, k, NoKey), k, now)[k] ]_vars

KeysIndependentWitness ==
  /\ AllIdle /\ last.key = "ratelimit:a" /\ last.out = "exceeded"
  /\ \/ store["ratelimit:b"] # NoKey /\ store["ratelimit:b"].count < store["ratelimit:a"].count
     \/ /\ inMemoryCache["ratelimit:b"] # NoEntry
        /\ inMemoryCache["ratelimit:b"].count < inMemoryCache["ratelimit:a"].count

----------------------------------------------------------------------------
(* The same timestamped requests given, one at a time, to a limiter that   *)
(* runs on the shared store only and to a limiter with the same options    *)
(* that runs on the in-memory fallback only.  A request arrives d ms after *)
(* the previous one; the store path runs GET and EXEC without delay.       *)

Gaps == {0, 100, 900, 1100}
TwinKey == "ratelimit:a"

TwinRequest(d) ==
  /\ Len(log) < MaxLog
  /\ LET t      == now + d
         k      == TwinKey
         s0     == Purge(store, t)
         sRej   == StoreExceeded(StoreGet(s0, k, t))
         mAdm   == MemAdmits(inMemoryCache, k, t)
         old    == inMemoryCache[k]
         outS   == IF sRej THEN "exceeded" ELSE "proceed"
         outM   == IF mAdm THEN "proceed" ELSE "exceeded"
     IN  /\ now' = t
         /\ store' = IF sRej THEN s0 ELSE StoreIncrExpire(s0, k, t)
         /\ inMemoryCache' = IF mAdm THEN MemAfterAdmit(inMemoryCache, k, t)
                             ELSE MemAfterReject(inMemoryCache, k, t)
         /\ pair' = [s |-> outS, m |-> outM]
         /\ log' = Append(log, [t |-> t, s |-> outS, m |-> outM])
         /\ obs' = [admPre |-> -1, late |-> FALSE,
                    exhausted |-> (old # NoEntry /\ old.count = max),
                    elapsed |-> (old # NoEntry /\ MemElapsed(old, t))]
  /\ UNCHANGED <<max, windowMs, connected, req, last, adm, wstart, http, app, calls, lastAdm, svcVars>>

NextTwin == \E d \in Gaps : TwinRequest(d)

SpecTwin == InitSeq /\ [][NextTwin]_vars

LogTimes == [i \in 1..Len(log) |-> log[i].t]
LogMem   == [i \in 1..Len(log) |-> log[i].m]

\* C3: in the in-memory fallback a request that finds its key's entry at
\* count = max and more than windowMs old is admitted and opens a new window
\* (count 1, window start = arrival time); with max = 2 and windowMs = 1000 the
\* requests at 0, 100, 200, 1100 ms are admitted, admitted, rejected, admitted.
MemRollover ==
  /\ (obs.exhausted /\ obs.elapsed) =>
        /\ pair.m = "proceed"
        /\ inMemoryCache[TwinKey] = [count |-> 1, startTime |-> now]
  /\ (max = 2 /\ windowMs = 1000 /\ LogTimes = <<0, 100, 200, 1100>>) =>
        LogMem = <<"proceed", "proceed", "exceeded", "proceed">>

MemRolloverWitness ==
  /\ max = 2 /\ windowMs = 1000 /\ LogTimes = <<0, 100, 200, 1100>>
  /\ obs.exhausted /\ obs.elapsed /\ pair.m = "proceed"
  /\ inMemoryCache[TwinKey] = [count |-> 1, startTime |-> 1100]

\* C5 (as claimed): the store-only limiter and the memory-only limiter take the
\* same decision on every request of the same sequence.
BackendsAgree == pair.s = pair.m

----------------------------------------------------------------------------
(* Claims about the limiter under store errors and backend switches *)

StoreCount(s, k) == IF s[k] = NoKey THEN 0 ELSE s[k].count
MemCount(c, k, t) ==
  IF c[k] = NoEntry \/ MemElapsed(c[k], t) THEN 0 ELSE c[k].count

\* C2: an invocation in which GET or EXEC raised ends with next() called,
\* the exceeded handler not called and no exception leaving the middleware.
FailOpen == last.err => last.out = "proceed"

\* the store raised on a request whose key had used up its quota
FailOpenWitness ==
  /\ last.err /\ last.out = "proceed" /\ last.incS = 0
  /\ StoreCount(store, last.key) >= max

\* C6 (as claimed): a live store counter and an unexpired in-memory entry with
\* a non-zero count never exist for the same key at the same time.
OneCounterPerKey ==
  \A k \in Keys :
    ~(StoreGet(store, k, now) # Nil /\ MemCount(inMemoryCache, k, now) > 0)

\* C7: whatever the switches between the backends, a step of an invocation
\* changes at most one counter of at most one backend; a store counter changes
\* only by the EXEC of an invocation that took the store branch, by exactly 1,
\* and the Map is then left alone; a Map entry changes only by an invocation
\* that took the in-memory branch, by exactly 1 above the count of the current
\* window, and that invocation sends nothing to the store; a rejected request
\* changes no counter.
CountsOnce ==
  [][ now' = now =>
        /\ Cardinality({k \in Keys : store'[k] # store[k]})
             + Cardinality({k \in Keys : inMemoryCache'[k] # inMemoryCache[k]}) <= 1
        /\ \A k \in Keys : store'[k] # store[k] =>
              /\ store'[k].count = StoreCount(store, k) + 1
              /\ \E p \in Procs : /\ req[p] = [pc |-> "exec", key |-> k]
                                  /\ req'[p] = Idle
              /\ last'.path = "store" /\ last'.out = "proceed" /\ last'.incM = 0
        /\ \A k \in Keys : inMemoryCache'[k] # inMemoryCache[k] =>
              /\ inMemoryCache'[k].count = MemCount(inMemoryCache, k, now) + 1
              /\ req' = req
              /\ last'.path = "mem" /\ last'.out = "proceed" /\ last'.incS = 0
        /\ (last' # last /\ last'.out = "exceeded") =>
              store' = store /\ inMemoryCache' = inMemoryCache
        /\ (last' # last /\ last'.out = "proceed" /\ ~last'.err) =>
              (store' # store \/ inMemoryCache' # inMemoryCache) ]_vars

\* a request counted in memory after the backend switched away from a store
\* that holds a counter for the same key
CountsOnceWitness ==
  /\ last.path = "mem" /\ last.out = "proceed" /\ last.incM = 1
  /\ inMemoryCache[last.key].count = 1
  /\ StoreCount(store, last.key) = 1
  /\ \E p \in Procs : req[p].pc = "exec"

----------------------------------------------------------------------------
(* The factory: rateLimiter(options) destructures its options and returns  *)
(* the middleware; it has no path that refuses an option value.            *)

OptionMax    == (-1) .. MaxLimit
OptionWindow == {-1000, 0} \cup WholeWindows

RateLimiterAccepts(optMax, optWindowMs) == TRUE

InitFactory ==
  /\ max \in OptionMax
  /\ windowMs \in OptionWindow
  /\ RateLimiterAccepts(max, windowMs)
  /\ connected \in BOOLEAN
  /\ InitProg
  /\ InitGhost

SpecFactory == InitFactory /\ [][NextSeq]_vars

\* C9 (as claimed): no limiter instance with max <= 0 or windowMs <= 0 ever
\* handles a request.
NoMisconfiguredInstance ==
  (last # NoLast \/ ~AllIdle) => (max > 0 /\ windowMs > 0)

----------------------------------------------------------------------------
(* The application's pipeline (app.js): the standard limiter, the routes,  *)
(* the 404 handler and the global error handler.  next(err) skips to the   *)
(* error handler.                                                          *)

\* class AppError extends Error
AppError(message, statusCode, type) ==
  [class |-> "AppError", name |-> "AppError", statusCode |-> statusCode,
   message |-> message, type |-> type, code |-> ""]

TooManyRequests == "Too many requests, please try again later"

\* mutant: the default handler builds its error without the error type
DefaultHandlerErrorUntyped == AppError(TooManyRequests, 429, "app_error")

\* the default options.handler: next(new AppError(..., 429, 'rate_limit_error'))
DefaultHandlerError == AppError(TooManyRequests, 429, "rate_limit_error")

\* notFoundHandler
NotFoundError == AppError("Not found", 404, "not_found")

\* errors a route handler passes to next(err)
RouteErrors ==
  { [class |-> "ValidationError", name |-> "SequelizeValidationError",
     statusCode |-> 0, message |-> "Validation error", type |-> "", code |-> ""],
    [class |-> "UniqueConstraintError", name |-> "SequelizeUniqueConstraintError",
     statusCode |-> 0, message |-> "Validation error", type |-> "", code |-> ""],
    [class |-> "ForeignKeyConstraintError", name |-> "SequelizeForeignKeyConstraintError",
     statusCode |-> 0, message |-> "fk violated", type |-> "", code |-> ""],
    [class |-> "Error", name |-> "TokenExpiredError",
     statusCode |-> 0, message |-> "jwt expired", type |-> "", code |-> ""],
    [class |-> "Error", name |-> "JsonWebTokenError",
     statusCode |-> 0, message |-> "jwt malformed", type |-> "", code |-> ""],
    [class |-> "Error", name |-> "Error",
     statusCode |-> 0, message |-> "connect ECONNREFUSED", type |-> "", code |-> "ECONNREFUSED"],
    [class |-> "Error", name |-> "Error",
     statusCode |-> 0, message |-> "", type |-> "", code |-> ""],
    AppError("Video not found", 404, "app_error") }

\* err instanceof ValidationError (UniqueConstraintError extends it)
IsValidationError(err) == err.class \in {"ValidationError", "UniqueConstraintError"}

\* the branch of the if / else-if chain the error takes
ErrorBranch(err) ==
  IF IsValidationError(err)
    THEN [status |-> 400, message |-> "Validation failed", type |-> "validation_error"]
  ELSE IF err.class = "UniqueConstraintError"
    THEN [status |-> 409, message |-> "Duplicate entry", type |-> "conflict_error"]
  ELSE IF err.class = "ForeignKeyConstraintError"
    THEN [status |-> 400, message |-> "Invalid reference", type |-> "reference_error"]
  ELSE IF err.name = "JsonWebTokenError" \/ err.name = "TokenExpiredError"
    THEN [status |-> 401,
          message |-> IF err.name = "TokenExpiredError" THEN "Token expired"
                      ELSE "Invalid token",
          type |-> "auth_error"]
  ELSE IF err.statusCode # 0
    THEN [status |-> err.statusCode, message |-> err.message,
          type |-> IF err.type # "" THEN err.type ELSE "custom_error"]
  ELSE IF err.code = "ECONNREFUSED"
    THEN [status |-> 500, message |-> "Database connection failed",
          type |-> "database_error"]
  ELSE [status |-> 500, message |-> "Internal Server Error", type |-> "server_error"]

\* errorHandler(err, req, res, next): the status and the body it answers with
ErrorHandler(err, development) ==
  LET b == ErrorBranch(err)
  IN  [status  |-> b.status,
       type    |-> b.type,
       message |-> IF err.message # "" /\ err.message # "Internal Server Error"
                   THEN err.message ELSE b.message,
       stack   |-> development]

\* app.use(standardLimiter): the request enters the limiter, which takes
\* the in-memory branch and calls next() or the handler at once
PipeArriveMem(k) ==
  /\ http.stage \in {"none", "done"}
  /\ AllIdle
  /\ MemRequest(SeqProc, k)
  /\ TrackMemRequest(k)
  /\ http' = [NoHttp EXCEPT !.stage = "limiter"]
  /\ UNCHANGED <<log, pair, app, calls, lastAdm, svcVars>>

\* app.use(standardLimiter): the request enters the limiter, which takes
\* the store branch and suspends
PipeArriveStore(k) ==
  /\ http.stage \in {"none", "done"}
  /\ AllIdle
  /\ StoreRequest(SeqProc, k)
  /\ TrackStoreRequest(k)
  /\ http' = [NoHttp EXCEPT !.stage = "limiter"]
  /\ UNCHANGED <<log, pair, app, calls, lastAdm, svcVars>>

PipeGetReturn == http.stage = "limiter" /\ SeqGetReturn

PipeExecReturn == http.stage = "limiter" /\ SeqExecReturn

\* what the limiter called: next() goes on to the routes, the exceeded
\* handler's next(err) goes to the error handler
PipeAfterLimiter ==
  /\ http.stage = "limiter"
  /\ AllIdle
  /\ http' = IF last.out = "proceed" THEN [http EXCEPT !.stage = "route"]
             ELSE [http EXCEPT !.stage = "error", !.err = DefaultHandlerError]
  /\ UNCHANGED <<max, windowMs, connected, store, inMemoryCache, now, req, last,
                 adm, wstart, obs, log, pair, app, calls, lastAdm, svcVars>>

\* a route handler runs and answers
PipeRouteOk ==
  /\ http.stage = "route"
  /\ http' = [http EXCEPT !.stage = "done", !.routeRan = TRUE, !.status = 200]
  /\ UNCHANGED <<max, windowMs, connected, store, inMemoryCache, now, req, last,
                 adm, wstart, obs, log, pair, app, calls, lastAdm, svcVars>>

\* a route handler runs and passes an error on
PipeRouteError(e) ==
  /\ http.stage = "route"
  /\ http' = [http EXCEPT !.stage = "error", !.routeRan = TRUE, !.err = e]
  /\ UNCHANGED <<max, windowMs, connected, store, inMemoryCache, now, req, last,
                 adm, wstart, obs, log, pair, app, calls, lastAdm, svcVars>>

\* no route matches: notFoundHandler
PipeNotFound ==
  /\ http.stage = "route"
  /\ http' = [http EXCEPT !.stage = "error", !.err = NotFoundError]
  /\ UNCHANGED <<max, windowMs, connected, store, inMemoryCache, now, req, last,
                 adm, wstart, obs, log, pair, app, calls, lastAdm, svcVars>>

\* app.use(errorHandler)
PipeErrorHandler(development) ==
  /\ http.stage = "error"
  /\ LET r == ErrorHandler(http.err, development)
     IN  http' = [http EXCEPT !.stage = "done", !.status = r.status,
                              !.type = r.type, !.message = r.message,
                              !.stack = r.stack]
  /\ UNCHANGED <<max, windowMs, connected, store, inMemoryCache, now, req, last,
                 adm, wstart, obs, log, pair, app, calls, lastAdm, svcVars>>

NextPipe ==
  \/ \E k \in HotKeys : PipeArriveMem(k)
  \/ \E k \in HotKeys : PipeArriveStore(k)
  \/ PipeGetReturn
  \/ PipeExecReturn
  \/ PipeAfterLimiter
  \/ PipeRouteOk
  \/ \E e \in RouteErrors : PipeRouteError(e)
  \/ PipeNotFound
  \/ \E d \in BOOLEAN : PipeErrorHandler(d)
  \/ SeqAdvance

SpecPipe == InitSeq /\ [][NextPipe]_vars

\* C10: a request the limiter rejected through its default handler is answered
\* with status 429, error.type "rate_limit_error" and error.message "Too many
\* requests, please try again later", and no route handler runs for it.
RejectionAnswer ==
  (http.stage \in {"error", "done"} /\ last.out = "exceeded") =>
     /\ ~http.routeRan
     /\ http.err = AppError(TooManyRequests, 429, "rate_limit_error")
     /\ http.stage = "done" =>
          /\ http.status = 429
          /\ http.type = "rate_limit_error"
          /\ http.message = "Too many requests, please try again later"

RejectionAnswerWitness ==
  /\ http.stage = "done" /\ last.out = "exceeded"
  /\ http.status = 429 /\ http.type = "rate_limit_error" /\ ~http.routeRan

-----------------------------------------------------------------------------
\* The application: standardLimiter = rateLimiter() is mounted on the whole
\* application, and the routers of /api/videos, /api/users and /api/comments
\* mount the same instance again.

\* the defaults of rateLimiter(options)
StandardMax == 60
StandardWindowMs == 60 * 1000

\* the HTTP requests one caller sends
MaxHttp == 62

\* "api": a route of a router that mounts standardLimiter itself;
\* "other": a route that does not (/health, /api/upload, no route at all)
Routes == {"api", "other"}

InitApp ==
  /\ max = StandardMax
  /\ windowMs = StandardWindowMs
  /\ connected \in BOOLEAN
  /\ InitProg
  /\ InitGhost

\* app.use(standardLimiter), in-memory branch; the caller stays on one route
AppArriveMem(r, k) ==
  /\ http.stage \in {"none", "done"}
  /\ AllIdle
  /\ app.n < MaxHttp
  /\ app.route \in {"none", r}
  /\ MemRequest(SeqProc, k)
  /\ http' = [NoHttp EXCEPT !.stage = "limiter"]
  /\ app' = [route |-> r, n |-> app.n + 1]
  /\ UNCHANGED <<ghostVars, log, pair, calls, lastAdm, svcVars>>

\* app.use(standardLimiter), store branch
AppArriveStore(r, k) ==
  /\ http.stage \in {"none", "done"}
  /\ AllIdle
  /\ app.n < MaxHttp
  /\ app.route \in {"none", r}
  /\ StoreRequest(SeqProc, k)
  /\ http' = [NoHttp EXCEPT !.stage = "limiter"]
  /\ app' = [route |-> r, n |-> app.n + 1]
  /\ UNCHANGED <<ghostVars, log, pair, calls, lastAdm, svcVars>>

AppGetReturn ==
  /\ http.stage \in {"limiter", "router"}
  /\ GetReturn(SeqProc)
  /\ UNCHANGED <<ghostVars, histVars>>

AppExecReturn ==
  /\ http.stage \in {"limiter", "router"}
  /\ ExecReturn(SeqProc)
  /\ UNCHANGED <<ghostVars, histVars>>

\* mutant: the handler's error is dropped and the request goes on
AppAfterLimiterPassesOn ==
  /\ http.stage = "limiter"
  /\ AllIdle
  /\ http' = IF app.route = "api" THEN [http EXCEPT !.stage = "mounted"]
             ELSE [http EXCEPT !.stage = "route"]
  /\ UNCHANGED <<max, windowMs, connected, store, inMemoryCache, now, req, last,
                 adm, wstart, obs, log, pair, app, calls, lastAdm, svcVars>>

\* the application-level limiter called next(): the request reaches the
\* mounted router, or a route without a limiter of its own
AppAfterLimiter ==
  /\ http.stage = "limiter"
  /\ AllIdle
  /\ http' = IF last.out # "proceed"
               THEN [http EXCEPT !.stage = "error", !.err = DefaultHandlerError]
             ELSE IF app.route = "api" THEN [http EXCEPT !.stage = "mounted"]
             ELSE [http EXCEPT !.stage = "route"]
  /\ UNCHANGED <<max, windowMs, connected, store, inMemoryCache, now, req, last,
                 adm, wstart, obs, log, pair, app, calls, lastAdm, svcVars>>

\* router.use(standardLimiter): the same instance, the same req.ip and so
\* the same key, in-memory branch
AppRouterMem ==
  /\ http.stage = "mounted"
  /\ MemRequest(SeqProc, last.key)
  /\ http' = [http EXCEPT !.stage = "router"]
  /\ UNCHANGED <<ghostVars, log, pair, app, calls, lastAdm, svcVars>>

\* router.use(standardLimiter), store branch
AppRouterStore ==
  /\ http.stage = "mounted"
  /\ StoreRequest(SeqProc, last.key)
  /\ http' = [http EXCEPT !.stage = "router"]
  /\ UNCHANGED <<ghostVars, log, pair, app, calls, lastAdm, svcVars>>

\* the router-level limiter called next() or the handler
AppAfterRouter ==
  /\ http.stage = "router"
  /\ AllIdle
  /\ http' = IF last.out = "proceed" THEN [http EXCEPT !.stage = "route"]
             ELSE [http EXCEPT !.stage = "error", !.err = DefaultHandlerError]
  /\ UNCHANGED <<max, windowMs, connected, store, inMemoryCache, now, req, last,
                 adm, wstart, obs, log, pair, app, calls, lastAdm, svcVars>>

NextApp ==
  \/ \E r \in Routes, k \in HotKeys : AppArriveMem(r, k)
  \/ \E r \in Routes, k \in HotKeys : AppArriveStore(r, k)
  \/ AppGetReturn
  \/ AppExecReturn
  \/ AppAfterLimiter
  \/ AppRouterMem
  \/ AppRouterStore
  \/ AppAfterRouter
  \/ PipeRouteOk
  \/ \E e \in RouteErrors : PipeRouteError(e)
  \/ PipeNotFound
  \/ \E d \in BOOLEAN : PipeErrorHandler(d)
  \/ SeqAdvance

SpecApp == InitApp /\ [][NextApp]_vars

OneUnitPerRequest ==
  (http.stage = "done" /\ app.route = "api") =>
     (http.status = 429 <=> app.n > StandardMax)

-----------------------------------------------------------------------------
\* Every call to the store eventually returns or raises: the awaited GET and
\* the awaited EXEC of a pending invocation do not stay unanswered for ever.

StoreAnswersGet(p) ==
  (GetReturn(p) \/ GetRaise(p)) /\ UNCHANGED <<ghostVars, histVars>>

StoreAnswersExec(p) ==
  (ExecReturn(p) \/ \E a \in BOOLEAN : ExecRaise(p, a))
  /\ UNCHANGED <<ghostVars, histVars>>

SpecLive ==
  /\ Init
  /\ [][Next]_vars
  /\ \A p \in Procs : WF_vars(StoreAnswersGet(p)) /\ WF_vars(StoreAnswersExec(p))

-----------------------------------------------------------------------------
\* Concurrent invocations on a store that stays connected and raises no
\* error.  adm[k] counts the requests admitted since the key's counter was
\* created, wstart[k] is when it was created.

InFlight == Cardinality(Procs)

TrackExec(p) ==
  LET k     == req[p].key
      fresh == StoreGet(store, k, now) = Nil
  IN  /\ adm' = [adm EXCEPT ![k] = IF fresh THEN 1 ELSE @ + 1]
      /\ wstart' = [wstart EXCEPT ![k] = IF fresh THEN now ELSE @]

ConcStoreRequest(p, k) ==
  StoreRequest(p, k) /\ UNCHANGED <<ghostVars, histVars>>

ConcGetReturn(p) ==
  GetReturn(p) /\ UNCHANGED <<ghostVars, histVars>>

ConcExecReturn(p) ==
  ExecReturn(p) /\ TrackExec(p) /\ UNCHANGED <<obs, histVars>>

ConcAdvance ==
  Advance(TickMs) /\ UNCHANGED <<ghostVars, histVars>>

InitStoreConc ==
  /\ max \in 1..MaxLimit
  /\ windowMs \in WindowChoices
  /\ connected = TRUE
  /\ InitProg
  /\ InitGhost

NextStoreConc ==
  \/ \E p \in Procs, k \in Keys : ConcStoreRequest(p, k)
  \/ \E p \in Procs : ConcGetReturn(p)
  \/ \E p \in Procs : ConcExecReturn(p)
  \/ ConcAdvance

SpecStoreConc == InitStoreConc /\ [][NextStoreConc]_vars

\* C14: on the store, with at most N invocations in flight at a time, the
\* number of requests admitted for a key within one window (the life of the
\* key's counter) never exceeds max + N - 1.
BoundedOvershoot ==
  \A k \in Keys :
    /\ adm[k] <= max + InFlight - 1
    /\ StoreCount(store, k) <= max + InFlight - 1

\* both invocations read a count below max and both were admitted
BoundedOvershootWitness ==
  \E k \in Keys : adm[k] = max + InFlight - 1 /\ StoreCount(store, k) = adm[k]

-----------------------------------------------------------------------------
\* Concurrent invocations while the connection goes up and down: invocations
\* suspended at a store call stay pending while others take the in-memory
\* branch.  adm[k] counts the requests admitted in the key's current
\* in-memory window.

ConcMemRequest(p, k) ==
  MemRequest(p, k) /\ TrackMemRequest(k) /\ UNCHANGED histVars

ConcExecReturnPlain(p) ==
  ExecReturn(p) /\ UNCHANGED <<ghostVars, histVars>>

ConcConnect == Connect /\ UNCHANGED <<ghostVars, histVars>>

ConcDisconnect == Disconnect /\ UNCHANGED <<ghostVars, histVars>>

NextMemConc ==
  \/ \E p \in Procs, k \in HotKeys : ConcMemRequest(p, k)
  \/ \E p \in Procs, k \in HotKeys : ConcStoreRequest(p, k)
  \/ \E p \in Procs : ConcGetReturn(p)
  \/ \E p \in Procs : ConcExecReturnPlain(p)
  \/ ConcConnect
  \/ ConcDisconnect
  \/ ConcAdvance

SpecMemConc == Init /\ [][NextMemConc]_vars

\* C15: on the in-memory path, under every interleaving with invocations
\* pending at the store, the number of requests admitted for a key within one
\* window never exceeds max, and the request that finds max admissions in
\* the window is rejected.
MemNeverOvershoots ==
  /\ \A k \in Keys : adm[k] <= max
  /\ (last.path = "mem" /\ obs.admPre = max) => last.out = "exceeded"

\* a request was rejected in memory at max admissions while another
\* invocation is suspended at the store
MemNeverOvershootsWitness ==
  /\ last.path = "mem" /\ last.out = "exceeded" /\ obs.admPre = max
  /\ adm[last.key] = max
  /\ \E p \in Procs : req[p].pc # "idle"

-----------------------------------------------------------------------------
\* C16: under any interleaving of concurrent requests, every counter present
\* in the store has a time-to-live: no request observes a counter that was
\* created or incremented and has no expiry set.
EveryCounterHasTTL ==
  \A k \in Keys : store[k] # NoKey => store[k].exp # NoTTL

\* C17: a rejected request changes no counter: the invocation that finds
\* the key's count at or above max in the current window leaves the stored
\* count, the in-memory entry (count and window start) and the store expiry
\* as they were, on either backend.
RejectChangesNothing ==
  [][ /\ (\E p \in Procs : /\ req[p].pc = "get"
                           /\ req'[p].pc = "idle"
                           /\ last'.out = "exceeded")
           => (store' = store /\ inMemoryCache' = inMemoryCache)
      /\ (/\ req' = req /\ now' = now /\ connected' = connected
          /\ last'.path = "mem" /\ last'.out = "exceeded")
           => (store' = store /\ inMemoryCache' = inMemoryCache) ]_vars

\* a request was rejected in memory at count max inside the window
RejectChangesNothingWitness ==
  /\ last.path = "mem" /\ last.out = "exceeded"
  /\ inMemoryCache[last.key] # NoEntry
  /\ inMemoryCache[last.key].count = max
  /\ ~MemElapsed(inMemoryCache[last.key], now)

\* a request was rejected by the store at count max with the key alive
RejectChangesNothingWitnessStore ==
  /\ last.path = "store" /\ last.out = "exceeded"
  /\ StoreGet(store, last.key, now) = max

-----------------------------------------------------------------------------
\* The continuations.  options.handler is the caller's function and next is
\* the host's: either may return or raise.  Both calls of the try block
\* (return handler(req, res, next) and next()) are inside the try, so a raise
\* of either lands in the catch block, which calls next().
\* Here last.out is the branch the try block took and calls holds the calls
\* the invocation made.

Outcomes == {"returns", "raises"}

\* the calls of one invocation: exhausted is the result of the quota check,
\* h the outcome of the handler, nTry of next() in the try block and nCatch
\* of next() in the catch block
Continuations(exhausted, h, nTry, nCatch) ==
  LET raised == IF exhausted THEN h = "raises" ELSE nTry = "raises"
  IN  [exhausted |-> exhausted,
       handler   |-> IF exhausted THEN 1 ELSE 0,
       proceed   |-> (IF exhausted THEN 0 ELSE 1) + (IF raised THEN 1 ELSE 0),
       escaped   |-> raised /\ nCatch = "raises"]

\* the calls of an invocation whose store call raised: next() in the catch
CatchContinuation(nCatch) ==
  [exhausted |-> FALSE, handler |-> 0, proceed |-> 1,
   escaped |-> nCatch = "raises"]

ThrowMemRequest(k, h, nTry, nCatch) ==
  /\ AllIdle
  /\ MemRequest(SeqProc, k)
  /\ calls' = Continuations(~MemAdmits(inMemoryCache, k, now), h, nTry, nCatch)
  /\ UNCHANGED <<ghostVars, log, pair, http, app, lastAdm, svcVars>>

ThrowStoreRequest(k) ==
  /\ AllIdle
  /\ StoreRequest(SeqProc, k)
  /\ UNCHANGED <<ghostVars, histVars>>

ThrowGetReturn(h, nCatch) ==
  /\ GetReturn(SeqProc)
  /\ calls' = IF StoreExceeded(StoreGet(store, req[SeqProc].key, now))
              THEN Continuations(TRUE, h, "returns", nCatch)
              ELSE calls
  /\ UNCHANGED <<ghostVars, log, pair, http, app, lastAdm, svcVars>>

ThrowExecReturn(nTry, nCatch) ==
  /\ ExecReturn(SeqProc)
  /\ calls' = Continuations(FALSE, "returns", nTry, nCatch)
  /\ UNCHANGED <<ghostVars, log, pair, http, app, lastAdm, svcVars>>

ThrowGetRaise(nCatch) ==
  /\ GetRaise(SeqProc)
  /\ calls' = CatchContinuation(nCatch)
  /\ UNCHANGED <<ghostVars, log, pair, http, app, lastAdm, svcVars>>

ThrowExecRaise(applied, nCatch) ==
  /\ ExecRaise(SeqProc, applied)
  /\ calls' = CatchContinuation(nCatch)
  /\ UNCHANGED <<ghostVars, log, pair, http, app, lastAdm, svcVars>>

NextThrow ==
  \/ \E k \in HotKeys, h, nTry, nCatch \in Outcomes :
        ThrowMemRequest(k, h, nTry, nCatch)
  \/ \E k \in HotKeys : ThrowStoreRequest(k)
  \/ \E h, nCatch \in Outcomes : ThrowGetReturn(h, nCatch)
  \/ \E nTry, nCatch \in Outcomes : ThrowExecReturn(nTry, nCatch)
  \/ \E nCatch \in Outcomes : ThrowGetRaise(nCatch)
  \/ \E a \in BOOLEAN, nCatch \in Outcomes : ThrowExecRaise(a, nCatch)
  \/ SeqAdvance

SpecThrow == InitSeq /\ [][NextThrow]_vars

\* C18: a request that finds its key's quota exhausted is never passed on
\* with next(), also when the handler given in the options raises.
NeverAdmitsExhausted == calls.exhausted => calls.proceed = 0

\* C19: an invocation calls next() at most once and never calls both next()
\* and the handler, also when next() raises.
ProceedAtMostOnce ==
  /\ calls.proceed <= 1
  /\ ~(calls.proceed >= 1 /\ calls.handler >= 1)

-----------------------------------------------------------------------------
\* One backend, requests handled one at a time, windows of a whole and of a
\* fractional number of seconds.  lastAdm[k] is the time of the last request
\* admitted for the key.

LockMemRequest(k) ==
  /\ AllIdle
  /\ MemRequest(SeqProc, k)
  /\ lastAdm' = IF MemAdmits(inMemoryCache, k, now)
                THEN [lastAdm EXCEPT ![k] = now] ELSE lastAdm
  /\ UNCHANGED <<ghostVars, log, pair, http, app, calls, svcVars>>

LockStoreRequest(k) ==
  /\ AllIdle
  /\ StoreRequest(SeqProc, k)
  /\ UNCHANGED <<ghostVars, histVars>>

LockGetReturn ==
  /\ GetReturn(SeqProc)
  /\ UNCHANGED <<ghostVars, histVars>>

LockExecReturn ==
  /\ ExecReturn(SeqProc)
  /\ lastAdm' = [lastAdm EXCEPT ![req[SeqProc].key] = now]
  /\ UNCHANGED <<ghostVars, log, pair, http, app, calls, svcVars>>

InitLock ==
  /\ max \in 1..MaxLimit
  /\ windowMs \in WindowChoices
  /\ connected \in BOOLEAN
  /\ InitProg
  /\ InitGhost

NextLock ==
  \/ \E k \in Keys : LockMemRequest(k)
  \/ \E k \in Keys : LockStoreRequest(k)
  \/ LockGetReturn
  \/ LockExecReturn
  \/ SeqAdvance

SpecLock == InitLock /\ [][NextLock]_vars

\* the key's quota is used up and more than windowMs has passed since the
\* last request admitted for it
LockedOut(k) ==
  /\ lastAdm[k] # Nil
  /\ now - lastAdm[k] > windowMs

\* C20: a key is never locked out for good: whatever requests were rejected
\* in between, once more than windowMs has passed since the last admitted
\* request for the key, the next request for it is admitted, on either
\* backend.
LockoutEnds ==
  \A k \in Keys :
    LockedOut(k) =>
      IF UseStore THEN ~StoreExceeded(StoreGet(store, k, now))
      ELSE MemAdmits(inMemoryCache, k, now)

-----------------------------------------------------------------------------
\* The three preconfigured limiters.  They are three calls of rateLimiter
\* in one module, so they share inMemoryCache and redisClient; they differ
\* in max and in keyGenerator.  part.by counts, per limiter and principal,
\* the requests that limiter admitted.

Limiters == {"standard", "auth", "user"}

AuthMax == 10
UserMax == 100

PreMax(l) ==
  CASE l = "standard" -> StandardMax
    [] l = "auth"     -> AuthMax
    [] l = "user"     -> UserMax

\* the requests all the callers send
MaxPre == 3

\* req.ip: the address of the socket's peer
Addresses == {"10.0.0.7", "::1", "::ffff:10.0.0.7"}
\* req.user.id: the numeric id of the user authMiddleware found; NoUser
\* stands for a request without req.user
NoUser  == 0
UserIds == {7, 10}

\* mutant: the generators leave the prefix out
KeyGeneratorNoPrefix(l, ip, user) ==
  IF l = "user" /\ user # NoUser THEN ToString(user) ELSE ip

\* options.keyGenerator of the three instances
KeyGenerator(l, ip, user) ==
  CASE l = "standard" -> ip
    [] l = "auth"     -> "auth:" \o ip
    [] l = "user"     -> "user:" \o (IF user # NoUser THEN ToString(user) ELSE ip)

\* const key = `ratelimit:${keyGenerator(req)}`
LimiterKey(l, ip, user) == "ratelimit:" \o KeyGenerator(l, ip, user)

\* whom the limiter counts: the address, or the user of the user limiter
Principal(l, ip, user) ==
  IF l = "user" /\ user # NoUser THEN ToString(user) ELSE ip

Requesters == Addresses \X (UserIds \cup {NoUser})

PreKeys == {LimiterKey(l, r[1], r[2]) : l \in Limiters, r \in Requesters}

Counted(l, who) ==
  IF <<l, who>> \in DOMAIN part.by THEN part.by[<<l, who>>] ELSE 0

CountOne(l, who) ==
  [n  |-> part.n + 1,
   by |-> [x \in DOMAIN part.by \cup {<<l, who>>} |->
             IF x = <<l, who>> THEN Counted(l, who) + 1 ELSE part.by[x]]]

\* in-memory branch of the instance l
PreMemRequest(l, ip, user) ==
  /\ pre = NoPre
  /\ part.n < MaxPre
  /\ ~UseStore
  /\ LET key  == LimiterKey(l, ip, user)
         item == MemReset(MemItem(inMemoryCache, key, now), now)
     IN  IF item.count >= PreMax(l)
         THEN /\ inMemoryCache' = MemAfterReject(inMemoryCache, key, now)
              /\ part' = part
         ELSE /\ inMemoryCache' = MemAfterAdmit(inMemoryCache, key, now)
              /\ part' = CountOne(l, Principal(l, ip, user))
  /\ UNCHANGED <<max, windowMs, connected, store, now, req, last,
                 ghostVars, log, pair, http, app, calls, lastAdm, pre, notKeysVars>>

\* store branch of the instance l: GET is sent
PreStoreRequest(l, ip, user) ==
  /\ pre = NoPre
  /\ part.n < MaxPre
  /\ UseStore
  /\ pre' = [pc |-> "get", lim |-> l, key |-> LimiterKey(l, ip, user),
             who |-> Principal(l, ip, user)]
  /\ UNCHANGED <<max, windowMs, connected, store, inMemoryCache, now, req, last,
                 ghostVars, log, pair, http, app, calls, lastAdm, part, notKeysVars>>

\* GET answers
PreGetReturn ==
  /\ pre.pc = "get"
  /\ LET cur == StoreGet(store, pre.key, now)
     IN  pre' = IF cur # Nil /\ cur >= PreMax(pre.lim) THEN NoPre
                ELSE [pre EXCEPT !.pc = "exec"]
  /\ UNCHANGED <<max, windowMs, connected, store, inMemoryCache, now, req, last,
                 ghostVars, log, pair, http, app, calls, lastAdm, part, notKeysVars>>

\* EXEC answers
PreExecReturn ==
  /\ pre.pc = "exec"
  /\ store' = StoreIncrExpire(store, pre.key, now)
  /\ part' = CountOne(pre.lim, pre.who)
  /\ pre' = NoPre
  /\ UNCHANGED <<max, windowMs, connected, inMemoryCache, now, req, last,
                 ghostVars, log, pair, http, app, calls, lastAdm, notKeysVars>>

InitKeys ==
  /\ max = StandardMax
  /\ windowMs = StandardWindowMs
  /\ connected \in BOOLEAN
  /\ store = [k \in PreKeys |-> NoKey]
  /\ inMemoryCache = [k \in PreKeys |-> NoEntry]
  /\ now = 0
  /\ req = [p \in Procs |-> Idle]
  /\ last = NoLast
  /\ InitGhost

NextKeys ==
  \/ \E l \in Limiters, r \in Requesters : PreMemRequest(l, r[1], r[2])
  \/ \E l \in Limiters, r \in Requesters : PreStoreRequest(l, r[1], r[2])
  \/ PreGetReturn
  \/ PreExecReturn

SpecKeys == InitKeys /\ [][NextKeys]_vars

\* C21: the standard, the auth and the user limiter never share a counter:
\* the keys they derive for any addresses and user ids are pairwise
\* distinct, and the counter under a limiter's key holds exactly the requests
\* that limiter admitted for that principal.
KeysNeverShared ==
  /\ \A l1, l2 \in Limiters, r1, r2 \in Requesters :
        l1 # l2 => LimiterKey(l1, r1[1], r1[2]) # LimiterKey(l2, r2[1], r2[2])
  /\ \A l \in Limiters, r \in Requesters :
        LET key == LimiterKey(l, r[1], r[2])
        IN  (IF UseStore THEN StoreCount(store, key)
             ELSE MemCount(inMemoryCache, key, now))
              = Counted(l, Principal(l, r[1], r[2]))

\* the three limiters have each counted a request of the same caller
KeysNeverSharedWitness ==
  \E ip \in Addresses, u \in UserIds :
    /\ Counted("standard", ip) = 1
    /\ Counted("auth", ip) = 1
    /\ Counted("user", ToString(u)) = 1

-----------------------------------------------------------------------------
\* C22: an entry stored in the in-memory Map is never removed, so the set
\* of keys the Map holds only grows, and every stored entry has a count
\* between 0 and the max of the limiter that wrote it.
MapOnlyGrows ==
  /\ [](\A k \in Keys :
          inMemoryCache[k] # NoEntry =>
             (0 <= inMemoryCache[k].count /\ inMemoryCache[k].count <= max))
  /\ [][\A k \in Keys :
          inMemoryCache[k] # NoEntry => inMemoryCache'[k] # NoEntry]_vars

\* a full entry is still held after its window has gone by
MapOnlyGrowsWitness ==
  \E k \in Keys :
    /\ inMemoryCache[k] # NoEntry
    /\ inMemoryCache[k].count = max
    /\ MemElapsed(inMemoryCache[k], now)

-----------------------------------------------------------------------------
\* controllers/authController.js: register and login over the users table.
\* User.findOne and User.create are calls to the database: each is awaited,
\* each may raise.  The fields nameOther, emailOther, emailAny, known and
\* wrong of an invocation are history: what the table held when the request
\* arrived.

\* the rows of the users table
MaxUsers == 3

Usernames == {"ann", "bob"}
Emails    == {"a@x.io", "b@x.io"}
Passwords == {"pw1", "pw2"}

\* bcrypt.hash(password, 10) and bcrypt.compare(password, hash)
Hash(pw) == "hash:" \o pw
Compare(pw, h) == h = Hash(pw)

\* User.findOne({ where: { email } }) and ({ where: { username } }): the rows
\* that match; findOne answers one of them, or null
EmailRows(t, e) == {i \in 1..Len(t) : t[i].email = e}
NameRows(t, u)  == {i \in 1..Len(t) : t[i].username = u}
FirstRow(rows)  == CHOOSE i \in rows : \A j \in rows : i <= j

Respond(p, status, error, token) ==
  res' = [res EXCEPT ![p] = [status |-> status, error |-> error, token |-> token]]

\* register is called: validationResult(req), then findOne by email is sent
RegStart(p, u, e, pw, valid) ==
  /\ reg[p].pc \in {"idle", "done"}
  /\ reg' = [reg EXCEPT ![p] =
       [pc |-> IF valid THEN "findEmail" ELSE "done",
        valid |-> valid, username |-> u, email |-> e, password |-> pw,
        nameOther  |-> \E i \in NameRows(users, u) : users[i].email # e,
        emailOther |-> \E i \in EmailRows(users, e) : users[i].username # u,
        emailAny   |-> EmailRows(users, e) # {},
        creates |-> 0, failed |-> FALSE]]
  /\ IF valid THEN res' = [res EXCEPT ![p] = NoRes]
     ELSE Respond(p, 400, "", FALSE)
  /\ UNCHANGED <<users, lg>>

\* mutant: the lookup by email is answered but its result is not looked at
RegFindEmailSkips(p) ==
  /\ reg[p].pc = "findEmail"
  /\ reg' = [reg EXCEPT ![p].pc = "findUsername"]
  /\ UNCHANGED <<users, lg, res>>

\* findOne by email answers
RegFindEmail(p) ==
  /\ reg[p].pc = "findEmail"
  /\ IF EmailRows(users, reg[p].email) # {}
     THEN /\ Respond(p, 400, "Email already in use", FALSE)
          /\ reg' = [reg EXCEPT ![p].pc = "done"]
     ELSE /\ reg' = [reg EXCEPT ![p].pc = "findUsername"]
          /\ res' = res
  /\ UNCHANGED <<users, lg>>

\* findOne by username answers
RegFindUsername(p) ==
  /\ reg[p].pc = "findUsername"
  /\ IF NameRows(users, reg[p].username) # {}
     THEN /\ Respond(p, 400, "Username already taken", FALSE)
          /\ reg' = [reg EXCEPT ![p].pc = "done"]
     ELSE /\ reg' = [reg EXCEPT ![p].pc = "hash"]
          /\ res' = res
  /\ UNCHANGED <<users, lg>>

\* bcrypt.hash answers and User.create is sent
RegHash(p) ==
  /\ reg[p].pc = "hash"
  /\ reg' = [reg EXCEPT ![p].pc = "create"]
  /\ UNCHANGED <<users, lg, res>>

\* User.create answers: the row is stored and the token signed, or the call
\* raises a SequelizeValidationError, or it raises another error
RegCreate(p, outcome) ==
  /\ reg[p].pc = "create"
  /\ reg' = [reg EXCEPT ![p].pc = "done", ![p].creates = @ + 1,
                        ![p].failed = (outcome # "created")]
  /\ CASE outcome = "created" ->
            /\ Len(users) < MaxUsers
            /\ users' = Append(users, [username |-> reg[p].username,
                                       email    |-> reg[p].email,
                                       password |-> Hash(reg[p].password)])
            /\ Respond(p, 201, "", TRUE)
       [] outcome = "validation" ->
            /\ users' = users
            /\ Respond(p, 400, "Validation failed", FALSE)
       [] outcome = "error" ->
            /\ users' = users
            /\ Respond(p, 500, "Registration failed. Please try again.", FALSE)
  /\ UNCHANGED lg

\* an awaited lookup or the hashing raises: catch, 500
RegRaise(p) ==
  /\ reg[p].pc \in {"findEmail", "findUsername", "hash"}
  /\ reg' = [reg EXCEPT ![p].pc = "done", ![p].failed = TRUE]
  /\ Respond(p, 500, "Registration failed. Please try again.", FALSE)
  /\ UNCHANGED <<users, lg>>

CreateOutcomes == {"created", "validation", "error"}

\* login is called: validationResult(req), then findOne by email is sent
LoginStart(e, pw, valid) ==
  /\ lg.pc \in {"idle", "done"}
  /\ lg' = [pc |-> IF valid THEN "find" ELSE "done",
            valid |-> valid, email |-> e, password |-> pw, row |-> 0,
            known |-> EmailRows(users, e) # {},
            wrong |-> \E i \in EmailRows(users, e) : ~Compare(pw, users[i].password),
            compares |-> 0, signs |-> 0, failed |-> FALSE]
  /\ IF valid THEN res' = [res EXCEPT ![LoginProc] = NoRes]
     ELSE Respond(LoginProc, 400, "", FALSE)
  /\ UNCHANGED <<users, reg>>

\* mutant: an unknown email gets an answer of its own
LoginFindTells ==
  /\ lg.pc = "find"
  /\ LET rows == EmailRows(users, lg.email)
     IN  IF rows = {}
         THEN /\ Respond(LoginProc, 404, "User not found", FALSE)
              /\ lg' = [lg EXCEPT !.pc = "done"]
         ELSE /\ lg' = [lg EXCEPT !.pc = "compare", !.row = FirstRow(rows)]
              /\ res' = res
  /\ UNCHANGED <<users, reg>>

\* findOne answers: no user, a user without a password hash, no password in
\* the body, or bcrypt.compare is sent
LoginFind ==
  /\ lg.pc = "find"
  /\ LET rows == EmailRows(users, lg.email)
     IN  IF rows = {} \/ users[FirstRow(rows)].password = ""
         THEN /\ Respond(LoginProc, 401, "Invalid email or password", FALSE)
              /\ lg' = [lg EXCEPT !.pc = "done"]
         ELSE IF lg.password = ""
         THEN /\ Respond(LoginProc, 401, "Password is required", FALSE)
              /\ lg' = [lg EXCEPT !.pc = "done"]
         ELSE /\ lg' = [lg EXCEPT !.pc = "compare", !.row = FirstRow(rows)]
              /\ res' = res
  /\ UNCHANGED <<users, reg>>

\* bcrypt.compare answers or raises; on a match the token is signed
LoginCompare(raises) ==
  /\ lg.pc = "compare"
  /\ LET match == ~raises /\ Compare(lg.password, users[lg.row].password)
     IN  /\ lg' = [lg EXCEPT !.pc = "done", !.compares = @ + 1,
                             !.signs = IF match THEN @ + 1 ELSE @]
         /\ IF match THEN Respond(LoginProc, 200, "", TRUE)
            ELSE Respond(LoginProc, 401, "Invalid email or password", FALSE)
  /\ UNCHANGED <<users, reg>>

\* findOne raises: catch, 500
LoginRaise ==
  /\ lg.pc = "find"
  /\ lg' = [lg EXCEPT !.pc = "done", !.failed = TRUE]
  /\ Respond(LoginProc, 500, "Login failed. Please try again.", FALSE)
  /\ UNCHANGED <<users, reg>>

\* one request at a time
AuthIdle ==
  /\ \A p \in Procs : reg[p].pc \in {"idle", "done"}
  /\ lg.pc \in {"idle", "done"}

InitAuth ==
  /\ max = StandardMax
  /\ windowMs = StandardWindowMs
  /\ connected = FALSE
  /\ InitProg
  /\ InitGhost

notAuthVars == <<limVars, keysVars, commentVars, uploadVars>>

NextAuth ==
  \/ \E u \in Usernames, e \in Emails, pw \in Passwords, v \in BOOLEAN :
        AuthIdle /\ RegStart(SeqProc, u, e, pw, v) /\ UNCHANGED notAuthVars
  \/ RegFindEmail(SeqProc) /\ UNCHANGED notAuthVars
  \/ RegFindUsername(SeqProc) /\ UNCHANGED notAuthVars
  \/ RegHash(SeqProc) /\ UNCHANGED notAuthVars
  \/ \E o \in CreateOutcomes : RegCreate(SeqProc, o) /\ UNCHANGED notAuthVars
  \/ RegRaise(SeqProc) /\ UNCHANGED notAuthVars
  \/ \E e \in Emails, pw \in Passwords, v \in BOOLEAN :
        AuthIdle /\ LoginStart(e, pw, v) /\ UNCHANGED notAuthVars
  \/ LoginFind /\ UNCHANGED notAuthVars
  \/ \E r \in BOOLEAN : LoginCompare(r) /\ UNCHANGED notAuthVars
  \/ LoginRaise /\ UNCHANGED notAuthVars

SpecAuth == InitAuth /\ [][NextAuth]_vars

-----------------------------------------------------------------------------
\* Concurrent invocations of register.

NextAuthConc ==
  \/ \E p \in Procs, u \in Usernames, e \in Emails :
        RegStart(p, u, e, "pw1", TRUE) /\ UNCHANGED notAuthVars
  \/ \E p \in Procs : RegFindEmail(p) /\ UNCHANGED notAuthVars
  \/ \E p \in Procs : RegFindUsername(p) /\ UNCHANGED notAuthVars
  \/ \E p \in Procs : RegHash(p) /\ UNCHANGED notAuthVars
  \/ \E p \in Procs, o \in CreateOutcomes : RegCreate(p, o) /\ UNCHANGED notAuthVars
  \/ \E p \in Procs : RegRaise(p) /\ UNCHANGED notAuthVars

SpecAuthConc == InitAuth /\ [][NextAuthConc]_vars

-----------------------------------------------------------------------------
\* C25: login does not tell whether an email is registered: for a request
\* that passes validation, an unknown email and a known email with a wrong
\* password get the same response, 401 "Invalid email or password"; for an
\* unknown email bcrypt.compare is not called, and no token is signed in
\* either case.
LoginTellsNothing ==
  LET refusal == [status |-> 401, error |-> "Invalid email or password",
                  token |-> FALSE]
  IN  (lg.pc = "done" /\ lg.valid /\ ~lg.failed) =>
        /\ ~lg.known =>
             (res[LoginProc] = refusal /\ lg.compares = 0 /\ lg.signs = 0)
        /\ (lg.known /\ lg.wrong) =>
             (res[LoginProc] = refusal /\ lg.signs = 0)

\* a login with a registered email and a wrong password was refused after
\* the comparison
LoginTellsNothingWitness ==
  /\ lg.pc = "done" /\ lg.valid /\ ~lg.failed
  /\ lg.known /\ lg.wrong /\ lg.compares = 1
  /\ res[LoginProc].status = 401

\* a login with an unknown email was refused while users are registered
LoginTellsNothingWitnessUnknown ==
  /\ lg.pc = "done" /\ lg.valid /\ ~lg.failed
  /\ ~lg.known /\ Len(users) > 0
  /\ res[LoginProc].status = 401

-----------------------------------------------------------------------------
\* C26: the error handler answers an error named TokenExpiredError with
\* status 401, type "auth_error" and message "Token expired", and an error
\* named JsonWebTokenError with 401, "auth_error" and "Invalid token",
\* whatever message the error carries.
JwtAnswers ==
  http.stage = "done" =>
    /\ http.err.name = "TokenExpiredError" =>
         (http.status = 401 /\ http.type = "auth_error"
          /\ http.message = "Token expired")
    /\ http.err.name = "JsonWebTokenError" =>
         (http.status = 401 /\ http.type = "auth_error"
          /\ http.message = "Invalid token")

-----------------------------------------------------------------------------
\* The comments service and its controller: addComment stores a row,
\* deleteComment removes one after checking the requester, toggleCommentLike
\* creates or removes the requester's like and counts the comment's likes.
\* A comment row keeps its place when destroyed (ids are never reused); a
\* video outlives its comments, deleting a video cascades to them.

notCommentVars == <<limVars, keysVars, authVars, uploadVars>>

Exists(c) == c \in 1..Len(comments) /\ comments[c].alive

\* Like.count({ where: { commentId } })
RECURSIVE SumLikes(_, _, _)
SumLikes(l, c, us) ==
  IF us = {} THEN 0
  ELSE LET u == CHOOSE x \in us : TRUE
       IN  l[<<u, c>>] + SumLikes(l, c, us \ {u})
LikeCount(l, c) == SumLikes(l, c, People)

AddComment(u, v) ==
  /\ Len(comments) < MaxComments
  /\ del.pc \in {"idle", "done"}
  /\ \A p \in Procs : tog[p].pc \in {"idle", "done"}
  /\ comments' = Append(comments, [userId |-> u, video |-> v, alive |-> TRUE])
  /\ UNCHANGED <<likes, del, tog, notCommentVars>>

\* the controller takes the request and calls the service
DelStart(c, u) ==
  /\ del.pc \in {"idle", "done"}
  /\ \A p \in Procs : tog[p].pc \in {"idle", "done"}
  /\ del' = [NoDel EXCEPT !.pc = "find", !.commentId = c, !.userId = u,
                          !.existed = Exists(c),
                          !.allowed = Exists(c) /\
                             (comments[c].userId = u \/
                              VideoOwner(comments[c].video) = u)]
  /\ UNCHANGED <<comments, likes, tog, notCommentVars>>

DelFindAnyone ==
  /\ del.pc = "find"
  /\ IF ~Exists(del.commentId)
       THEN del' = [del EXCEPT !.pc = "done", !.status = 404,
                               !.error = "Comment not found"]
       ELSE del' = [del EXCEPT !.pc = "destroy"]
  /\ UNCHANGED <<comments, likes, tog, notCommentVars>>

\* Comment.findByPk with the video, then the two checks
DelFind ==
  /\ del.pc = "find"
  /\ IF ~Exists(del.commentId)
       THEN del' = [del EXCEPT !.pc = "done", !.status = 404,
                               !.error = "Comment not found"]
       ELSE IF /\ comments[del.commentId].userId # del.userId
               /\ VideoOwner(comments[del.commentId].video) # del.userId
       THEN del' = [del EXCEPT !.pc = "done", !.status = 403,
                               !.error = "Unauthorized to delete this comment"]
       ELSE del' = [del EXCEPT !.pc = "destroy"]
  /\ UNCHANGED <<comments, likes, tog, notCommentVars>>

\* comment.destroy(), then res.json({ deleted: true })
DelDestroy ==
  /\ del.pc = "destroy"
  /\ comments' = [comments EXCEPT ![del.commentId].alive = FALSE]
  /\ del' = [del EXCEPT !.pc = "done", !.status = 200,
                         !.destroys = del.destroys + 1]
  /\ UNCHANGED <<likes, tog, notCommentVars>>

\* a query rejects: the service rethrows, the controller passes the error on
DelRaise ==
  /\ del.pc \in {"find", "destroy"}
  /\ del' = [del EXCEPT !.pc = "done", !.failed = TRUE, !.status = 500]
  /\ UNCHANGED <<comments, likes, tog, notCommentVars>>

ServiceIdle ==
  /\ del.pc \in {"idle", "done"}
  /\ \A p \in Procs : tog[p].pc \in {"idle", "done"}

\* the call before this one was the same user's on the same comment, it
\* returned, and nothing touched the likes since
Chained(p, c, u) ==
  /\ tog[p].pc = "done" /\ tog[p].status = 200 /\ tog[p].fresh
  /\ tog[p].commentId = c /\ tog[p].userId = u

\* the likes table changed under every other call's feet
Touched(p, t) ==
  [q \in Procs |-> IF q = p THEN t ELSE [tog[q] EXCEPT !.fresh = FALSE]]

\* the controller takes the request and calls the service; the record also
\* remembers what the call before it found, when the two are successive
TogStart(p, c, u) ==
  /\ tog[p].pc \in {"idle", "done"}
  /\ del.pc \in {"idle", "done"}
  /\ tog' = [tog EXCEPT ![p] =
       [NoTog EXCEPT !.pc = "findComment", !.commentId = c, !.userId = u,
                     !.before = likes[<<u, c>>],
                     !.totalBefore = LikeCount(likes, c),
                     !.chained = Chained(p, c, u),
                     !.prevBefore =
                        IF Chained(p, c, u) THEN tog[p].before ELSE 0,
                     !.prevTotal =
                        IF Chained(p, c, u) THEN tog[p].totalBefore ELSE 0]]
  /\ UNCHANGED <<comments, likes, del, notCommentVars>>

\* Comment.findByPk(commentId)
TogFindComment(p) ==
  /\ tog[p].pc = "findComment"
  /\ IF Exists(tog[p].commentId)
       THEN tog' = [tog EXCEPT ![p].pc = "findLike"]
       ELSE tog' = [tog EXCEPT ![p].pc = "done", ![p].status = 404]
  /\ UNCHANGED <<comments, likes, del, notCommentVars>>

TogFindLikeNever(p) ==
  /\ tog[p].pc = "findLike"
  /\ tog' = [tog EXCEPT ![p].existing = FALSE, ![p].pc = "create"]
  /\ UNCHANGED <<comments, likes, del, notCommentVars>>

\* Like.findOne({ where: { userId, commentId } })
TogFindLike(p) ==
  /\ tog[p].pc = "findLike"
  /\ LET found == likes[<<tog[p].userId, tog[p].commentId>>] > 0
     IN  tog' = [tog EXCEPT ![p].existing = found,
                            ![p].pc = IF found THEN "destroy" ELSE "create"]
  /\ UNCHANGED <<comments, likes, del, notCommentVars>>

\* existingLike.destroy(): deletes the row that was found, if it is still
\* there
TogDestroy(p) ==
  /\ tog[p].pc = "destroy"
  /\ likes' = [likes EXCEPT ![<<tog[p].userId, tog[p].commentId>>] =
                              IF @ > 0 THEN @ - 1 ELSE 0]
  /\ tog' = Touched(p, [tog[p] EXCEPT !.liked = FALSE, !.pc = "count"])
  /\ UNCHANGED <<comments, del, notCommentVars>>

\* Like.create({ userId, commentId })
TogCreate(p) ==
  /\ tog[p].pc = "create"
  /\ likes' = [likes EXCEPT ![<<tog[p].userId, tog[p].commentId>>] = @ + 1]
  /\ tog' = Touched(p, [tog[p] EXCEPT !.liked = TRUE, !.pc = "count"])
  /\ UNCHANGED <<comments, del, notCommentVars>>

\* Like.count({ where: { commentId } }), then res.json(result)
TogCount(p) ==
  /\ tog[p].pc = "count"
  /\ tog' = [tog EXCEPT ![p].totalLikes = LikeCount(likes, tog[p].commentId),
                         ![p].pc = "done", ![p].status = 200,
                         ![p].fresh = TRUE]
  /\ UNCHANGED <<comments, likes, del, notCommentVars>>

\* a query rejects: the service rethrows, the controller passes the error on
TogRaise(p) ==
  /\ tog[p].pc \in {"findComment", "findLike", "destroy", "create", "count"}
  /\ tog' = [tog EXCEPT ![p].pc = "done", ![p].failed = TRUE,
                         ![p].status = 500]
  /\ UNCHANGED <<comments, likes, del, notCommentVars>>

InitComments ==
  /\ max = StandardMax /\ windowMs = StandardWindowMs
  /\ connected = FALSE
  /\ InitProg
  /\ InitGhost

\* comments are written and deleted, one request at a time
NextComments ==
  \/ \E u \in People, v \in Videos : AddComment(u, v)
  \/ \E c \in CommentIds, u \in People : DelStart(c, u)
  \/ DelFind
  \/ DelDestroy
  \/ DelRaise

SpecComments == InitComments /\ [][NextComments]_vars

\* the users who like comments, and the one who writes them
Likers == {1, 2}
Author == 3

\* comments are written and liked, one request at a time
NextLikes ==
  \/ \E v \in Videos : AddComment(Author, v)
  \/ \E c \in CommentIds, u \in Likers :
       ServiceIdle /\ TogStart(SeqProc, c, u)
  \/ TogFindComment(SeqProc)
  \/ TogFindLike(SeqProc)
  \/ TogDestroy(SeqProc)
  \/ TogCreate(SeqProc)
  \/ TogCount(SeqProc)
  \/ TogRaise(SeqProc)

SpecLikes == InitComments /\ [][NextLikes]_vars

\* C27: deleteComment removes a comment only for its author or the owner of
\* its video; any other requester gets 403 "Unauthorized to delete this
\* comment" and the comment still exists; a missing comment gets 404
\* "Comment not found" and nothing is deleted.
DeleteOnlyByAuthorOrOwner ==
  /\ [](del.pc = "done" /\ ~del.failed =>
         /\ (del.existed /\ ~del.allowed) =>
               /\ del.status = 403
               /\ del.error = "Unauthorized to delete this comment"
               /\ Exists(del.commentId)
               /\ del.destroys = 0
         /\ ~del.existed =>
               /\ del.status = 404
               /\ del.error = "Comment not found"
               /\ del.destroys = 0)
  /\ [][\A c \in 1..Len(comments) :
          (comments[c].alive /\ ~comments'[c].alive) =>
             /\ del.commentId = c
             /\ \/ comments[c].userId = del.userId
                \/ VideoOwner(comments[c].video) = del.userId]_vars

\* a user who neither wrote the comment nor owns its video was refused, and
\* before that the video's owner, not the author, removed another comment
DeleteOnlyByAuthorOrOwnerWitness ==
  /\ del.pc = "done" /\ del.status = 403 /\ del.existed /\ ~del.allowed
  /\ Exists(del.commentId)
  /\ \E c \in 1..Len(comments) : ~comments[c].alive

\* a delete of a comment that is not there was answered 404
DeleteOnlyByAuthorOrOwnerWitnessMissing ==
  /\ del.pc = "done" /\ del.status = 404 /\ ~del.existed
  /\ Len(comments) > 0

-----------------------------------------------------------------------------
\* C29: toggleCommentLike alternates the caller's like on an existing
\* comment: with no like it creates one and returns liked = true, with a
\* like it removes it and returns liked = false; totalLikes is the number of
\* likes on the comment after the change; the second of two successive
\* calls by the same user, nothing else in between, restores the like state
\* and the total the first one found.
ToggleAlternates ==
  LET t == tog[SeqProc]
      k == <<t.userId, t.commentId>>
  IN  (t.pc = "done" /\ t.status = 200) =>
        /\ t.before = 0 => (t.liked /\ likes[k] = 1)
        /\ t.before > 0 => (~t.liked /\ likes[k] = 0)
        /\ t.totalLikes = LikeCount(likes, t.commentId)
        /\ t.chained => (likes[k] = t.prevBefore /\ t.totalLikes = t.prevTotal)

\* the second of two successive calls removed the like the first one made,
\* on a comment another user likes too
ToggleAlternatesWitness ==
  LET t == tog[SeqProc]
  IN  /\ t.pc = "done" /\ t.status = 200 /\ t.chained
      /\ t.before = 1 /\ ~t.liked /\ t.totalLikes = 1

\* the second of two successive calls put back the like the first one
\* removed
ToggleAlternatesWitnessBack ==
  LET t == tog[SeqProc]
  IN  /\ t.pc = "done" /\ t.status = 200 /\ t.chained
      /\ t.before = 0 /\ t.liked /\ t.prevBefore = 1

-----------------------------------------------------------------------------
\* The same service with two requests of one user in flight: each await is
\* a point where the other request may run. One comment is written; the
\* other ids name no comment.
DoubleClicker == {1}

NextLikesConc ==
  \/ comments = <<>> /\ AddComment(Author, "v1")
  \/ \E p \in Procs, c \in CommentIds, u \in DoubleClicker :
       TogStart(p, c, u)
  \/ \E p \in Procs : TogFindComment(p)
  \/ \E p \in Procs : TogFindLike(p)
  \/ \E p \in Procs : TogDestroy(p)
  \/ \E p \in Procs : TogCreate(p)
  \/ \E p \in Procs : TogCount(p)
  \/ \E p \in Procs : TogRaise(p)

SpecLikesConc == InitComments /\ [][NextLikesConc]_vars

\* C30: however concurrent toggleCommentLike calls interleave, a user has at
\* most one like on any comment: two overlapping toggles by the same user
\* on the same comment never both find no like and both create one.
AtMostOneLike ==
  /\ \A k \in People \X CommentIds : likes[k] <= 1
  /\ \A p, q \in Procs :
       (/\ p # q
        /\ tog[p].userId = tog[q].userId
        /\ tog[p].commentId = tog[q].commentId) =>
          ~(tog[p].pc = "create" /\ tog[q].pc = "create")

-----------------------------------------------------------------------------
\* POST /api/upload/video and UploadService.processVideoUpload. multer has
\* written the temporary file before the handler runs; the object store, the
\* database and the file system each answer or fail.

MaxUploads == 3
IoOutcomes == {"ok", "failed"}
notUploadVars == <<limVars, keysVars, authVars, commentVars>>

\* fs.unlink inside cleanupTempFile: a failure is logged and swallowed
Unlink(fs, id, outcome) == IF outcome = "ok" THEN fs \ {id} ELSE fs

\* the handler has a valid request with a file and calls the service
UpStart ==
  /\ up.pc \in {"idle", "done"}
  /\ up.id < MaxUploads
  /\ up' = [NoUp EXCEPT !.pc = "upload", !.id = up.id + 1]
  /\ temps' = temps \cup {up.id + 1}
  /\ UNCHANGED <<objects, videos, notUploadVars>>

\* uploadToStorage: readFile and PutObject; a failure is rethrown
UpStore(outcome) ==
  /\ up.pc = "upload"
  /\ IF outcome = "ok"
       THEN /\ objects' = objects \cup {up.id}
            /\ up' = [up EXCEPT !.uploadedFile = TRUE, !.pc = "create"]
       ELSE /\ objects' = objects
            /\ up' = [up EXCEPT !.pc = "catch"]
  /\ UNCHANGED <<temps, videos, notUploadVars>>

\* Video.create
UpCreate(outcome) ==
  /\ up.pc = "create"
  /\ IF outcome = "ok"
       THEN /\ videos' = videos \cup {up.id}
            /\ up' = [up EXCEPT !.pc = "cleanup"]
       ELSE /\ videos' = videos
            /\ up' = [up EXCEPT !.pc = "catch"]
  /\ UNCHANGED <<temps, objects, notUploadVars>>

\* cleanupTempFile, then the result is returned
UpCleanup(outcome) ==
  /\ up.pc = "cleanup"
  /\ temps' = Unlink(temps, up.id, outcome)
  /\ up' = [up EXCEPT !.unlinks = up.unlinks + 1,
                       !.unlinked = (outcome = "ok"), !.pc = "returned"]
  /\ UNCHANGED <<objects, videos, notUploadVars>>

UpCatchForgets(outcome) ==
  /\ up.pc = "catch"
  /\ temps' = Unlink(temps, up.id, outcome)
  /\ up' = [up EXCEPT !.unlinks = up.unlinks + 1,
                       !.unlinked = (outcome = "ok"),
                       !.threw = TRUE, !.pc = "thrown"]
  /\ UNCHANGED <<objects, videos, notUploadVars>>

\* the catch block: cleanupTempFile, then deleteFromStorage when an object
\* was stored, then the error is rethrown
UpCatch(outcome) ==
  /\ up.pc = "catch"
  /\ temps' = Unlink(temps, up.id, outcome)
  /\ up' = [up EXCEPT !.unlinks = up.unlinks + 1,
                       !.unlinked = (outcome = "ok"),
                       !.threw = ~up.uploadedFile,
                       !.pc = IF up.uploadedFile THEN "delete" ELSE "thrown"]
  /\ UNCHANGED <<objects, videos, notUploadVars>>

\* deleteFromStorage: a failure is logged and swallowed
UpDelete(outcome) ==
  /\ up.pc = "delete"
  /\ objects' = IF outcome = "ok" THEN objects \ {up.id} ELSE objects
  /\ up' = [up EXCEPT !.deletes = up.deletes + 1,
                       !.deleted = (outcome = "ok"),
                       !.threw = TRUE, !.pc = "thrown"]
  /\ UNCHANGED <<temps, videos, notUploadVars>>

\* the handler answers 201
UpRespond ==
  /\ up.pc = "returned"
  /\ up' = [up EXCEPT !.pc = "done", !.status = 201]
  /\ UNCHANGED <<temps, objects, videos, notUploadVars>>

\* the handler's catch: cleanupTempFile once more, then next(error)
UpFail(outcome) ==
  /\ up.pc = "thrown"
  /\ temps' = Unlink(temps, up.id, outcome)
  /\ up' = [up EXCEPT !.pc = "done", !.status = 500]
  /\ UNCHANGED <<objects, videos, notUploadVars>>

NextUpload ==
  \/ UpStart
  \/ \E o \in IoOutcomes : UpStore(o)
  \/ \E o \in IoOutcomes : UpCreate(o)
  \/ \E o \in IoOutcomes : UpCleanup(o)
  \/ \E o \in IoOutcomes : UpCatch(o)
  \/ \E o \in IoOutcomes : UpDelete(o)
  \/ UpRespond
  \/ \E o \in IoOutcomes : UpFail(o)

SpecUpload == InitComments /\ [][NextUpload]_vars

\* processVideoUpload has returned or thrown
UpFinished == up.pc \in {"returned", "thrown"}

\* C28: after processVideoUpload finishes, by return or by throw, the
\* temporary file has been cleaned up; when it throws after the object was
\* stored, a deletion of the object has been issued and no Video record of
\* the upload exists, and the object is gone when the delete succeeded.
UploadCleansUp ==
  UpFinished =>
    /\ up.id \notin temps
    /\ (up.threw /\ up.uploadedFile) =>
         /\ up.deletes = 1
         /\ up.id \notin videos
         /\ up.deleted => up.id \notin objects

\* C28 as the code has it: the cleanup of the temporary file has been
\* attempted, and the file is gone when the unlink succeeded.
UploadCleanupAttempted ==
  UpFinished =>
    /\ up.unlinks = 1
    /\ up.unlinked => up.id \notin temps
    /\ (up.threw /\ up.uploadedFile) =>
         /\ up.deletes = 1
         /\ up.id \notin videos
         /\ up.deleted => up.id \notin objects
    /\ up.threw => up.id \notin videos

\* Video.create failed after the object was stored: the temporary file was
\* unlinked, the object deleted, and no row was written
UploadCleanupAttemptedWitness ==
  /\ up.pc = "thrown" /\ up.threw /\ up.uploadedFile
  /\ up.unlinked /\ up.deleted
  /\ up.id \notin temps /\ up.id \notin objects /\ up.id \notin videos

====
